---- MODULE Spec2Model ----
(***************************************************************************)
(* Model of two home-assistant platforms:                                  *)
(*   - sensor/zwave.py : Z-Wave sensors, in particular ZWaveTriggerSensor, *)
(*     the re-armed trigger sensor for devices that never send Off;        *)
(*   - switch/wemo.py  : WeMo switches, the lazily created subscription    *)
(*     registry and the telemetry snapshot refreshed by update().          *)
(***************************************************************************)
EXTENDS Integers, Sequences, FiniteSets, Bags, TLC

VARIABLES
    now,               \* dt_util.utcnow(), in seconds
    data,              \* value.data of every value of the Z-Wave network
    devices,           \* entities handed to add_devices, in creation order
    invalidate_after,  \* ZWaveTriggerSensor.invalidate_after, per device
    timers,            \* pending track_point_in_time registrations (a bag)
    pushed,            \* last state written to the host by update_ha_state
    last_on,           \* history: time of the latest matching On notification
    ev,                \* history: the operation that produced this state
    registry,          \* wemo._WEMO_SUBSCRIPTION_REGISTRY (0 is None)
    created,           \* number of pywemo.SubscriptionRegistry() constructed
    started,           \* start() calls received by each registry
    stopped,           \* stop() calls received by each registry
    listeners,         \* pending listen_once(EVENT_HOMEASSISTANT_STOP, ...)
    listened,          \* number of listen_once registrations ever made
    shutdown,          \* EVENT_HOMEASSISTANT_STOP has fired
    stopping,          \* stop_wemo callbacks of the fired event still to run
    pc,                \* position of every wemo.setup_platform call (one thread each)
    info,              \* discovery_info of every wemo.setup_platform call
    switches,          \* WemoSwitch entities, in creation order
    wemo_state,        \* state cached inside each pywemo device
    registered,        \* register()/on() calls received, per pywemo device
    refreshed,         \* history: an update() of the switch completed without error
    updating,          \* the update() each thread is in, and the line it is at
    wev,               \* history: outcome of the last WemoSwitch.update() to end
    disc,              \* discovery_info of a sensor.zwave setup_platform call
    outcome,           \* what that call handed to add_devices, what it raised
    reading,           \* value.data and value.units of a multilevel value
    shown              \* state and unit_of_measurement read from its sensor

zvars == <<now, data, devices, invalidate_after, timers, pushed, last_on, ev>>
wvars == <<registry, created, started, stopped, listeners, listened, shutdown,
           stopping, pc, info, switches, wemo_state, registered, refreshed,
           updating, wev>>
svars == <<disc, outcome, reading, shown>>
vars == <<now, data, devices, invalidate_after, timers, pushed, last_on, ev,
          registry, created, started, stopped, listeners, listened, shutdown,
          stopping, pc, info, switches, wemo_state, registered, refreshed,
          updating, wev,
          disc, outcome, reading, shown>>

----------------------------------------------------------------------------
(* Bounds of the model *)

MaxTicks == 4          \* the clock stops after this many ticks
MaxDevices == 2        \* Z-Wave entities created
MaxTimers == 2         \* pending deferred re-evaluations
MaxCalls == 2          \* wemo.setup_platform calls, each on its own thread
MaxSwitches == 2       \* WemoSwitch entities created by setup_platform calls
MaxRefreshed == 1      \* WemoSwitch entities of a network being refreshed
MaxMultiplier == 5     \* largest configuration parameter 9 of a discovered node
MaxWhole == 1          \* largest whole part of the multilevel readings tried

----------------------------------------------------------------------------
(* homeassistant.const / zwave constants used by sensor/zwave.py *)

STATE_ON == "on"
STATE_OFF == "off"
STATE_STANDBY == "standby"
NoState == "none"                     \* nothing pushed yet
NoTime == -1                          \* history: no On notification pending

PHILIO == "013c"
PHILIO_SLIM_SENSOR == "0002"
PHILIO_SLIM_SENSOR_MOTION == <<PHILIO, PHILIO_SLIM_SENSOR, 0>>
WORKAROUND_NO_OFF_EVENT == "trigger_no_off_event"
DEVICE_MAPPINGS == [k \in {PHILIO_SLIM_SENSOR_MOTION} |-> WORKAROUND_NO_OFF_EVENT]

COMMAND_CLASS_SENSOR_BINARY == "COMMAND_CLASS_SENSOR_BINARY"
COMMAND_CLASS_SENSOR_MULTILEVEL == "COMMAND_CLASS_SENSOR_MULTILEVEL"
COMMAND_CLASS_METER == "COMMAND_CLASS_METER"
COMMAND_CLASS_ALARM == "COMMAND_CLASS_ALARM"
TYPE_DECIMAL == "Decimal"

DefaultReArmMultiplier == 4
ReArmUnitSec == 8

\* The clock advances in steps of one re-arm unit, so that every window is a
\* whole number of ticks and its boundary is an instant the model visits.
TickSec == ReArmUnitSec
MaxTime == MaxTicks * TickSec

\* Python truthiness of a raw value (numbers: zero is falsy).
Truthy(x) == x # 0

\* Python's None, and a value that is present.
None == << >>
Some(x) == <<x>>
Present(p) == p # None

\* The values of the Z-Wave network that discovery can announce.
\* config9 is what zwave.get_config_value(value.node, 9) returns: None when
\* the node has no configuration parameter 9.
NetworkValues ==
    <<[manufacturer_id |-> PHILIO, product_id |-> PHILIO_SLIM_SENSOR, index |-> 0,
       command_class |-> COMMAND_CLASS_SENSOR_BINARY, type |-> "Bool", config9 |-> Some(2)],
      [manufacturer_id |-> "0086", product_id |-> "0005", index |-> 0,
       command_class |-> COMMAND_CLASS_SENSOR_BINARY, type |-> "Bool", config9 |-> None]>>

ValueIds == 1..Len(NetworkValues)
RawData == {0, 1}

----------------------------------------------------------------------------
(* sensor/zwave.py *)

ZWaveTriggerSensor == "ZWaveTriggerSensor"
ZWaveBinarySensor == "ZWaveBinarySensor"
ZWaveMultilevelSensor == "ZWaveMultilevelSensor"
ZWaveAlarmSensor == "ZWaveAlarmSensor"

\* zwave.get_config_value(value.node, 9) or 4
multiplier_ignores_config(value) == DefaultReArmMultiplier
re_arm_multiplier(value) ==
    IF Present(value.config9) /\ Truthy(value.config9[1])
    THEN value.config9[1] ELSE DefaultReArmMultiplier

Device(cls, v, sec) == [cls |-> cls, value_id |-> v, re_arm_sec |-> sec]

\* The list handed to add_devices by setup_platform for discovered value v.
setup_generic_first(v, value) ==
    IF value.command_class = COMMAND_CLASS_SENSOR_BINARY
    THEN <<Device(ZWaveBinarySensor, v, 0)>>
    ELSE IF value.command_class = COMMAND_CLASS_SENSOR_MULTILEVEL
    THEN <<Device(ZWaveMultilevelSensor, v, 0)>>
    ELSE IF value.command_class = COMMAND_CLASS_METER
            /\ value.type = TYPE_DECIMAL
    THEN <<Device(ZWaveMultilevelSensor, v, 0)>>
    ELSE IF value.command_class = COMMAND_CLASS_ALARM
    THEN <<Device(ZWaveAlarmSensor, v, 0)>>
    ELSE IF <<value.manufacturer_id, value.product_id, value.index>>
                \in DOMAIN DEVICE_MAPPINGS
    THEN <<Device(ZWaveTriggerSensor, v,
                  re_arm_multiplier(value) * ReArmUnitSec)>>
    ELSE << >>
setup_platform(v, value) ==
    LET specific_sensor_key ==
            <<value.manufacturer_id, value.product_id, value.index>>
    IN  IF specific_sensor_key \in DOMAIN DEVICE_MAPPINGS
        THEN IF DEVICE_MAPPINGS[specific_sensor_key] = WORKAROUND_NO_OFF_EVENT
             THEN <<Device(ZWaveTriggerSensor, v,
                           re_arm_multiplier(value) * ReArmUnitSec)>>
             ELSE << >>
        ELSE IF value.command_class = COMMAND_CLASS_SENSOR_BINARY
        THEN <<Device(ZWaveBinarySensor, v, 0)>>
        ELSE IF value.command_class = COMMAND_CLASS_SENSOR_MULTILEVEL
        THEN <<Device(ZWaveMultilevelSensor, v, 0)>>
        ELSE IF value.command_class = COMMAND_CLASS_METER
                /\ value.type = TYPE_DECIMAL
        THEN <<Device(ZWaveMultilevelSensor, v, 0)>>
        ELSE IF value.command_class = COMMAND_CLASS_ALARM
        THEN <<Device(ZWaveAlarmSensor, v, 0)>>
        ELSE << >>

\* ZWaveBinarySensor.state
ZWaveBinarySensor_state(value_data) ==
    IF Truthy(value_data) THEN STATE_ON ELSE STATE_OFF

\* ZWaveTriggerSensor.state
state_flipped(value_data, invalidate, utcnow) ==
    IF ~Truthy(value_data) \/ invalidate >= utcnow
    THEN STATE_OFF ELSE STATE_ON
state_no_expiry(value_data, invalidate, utcnow) ==
    IF ~Truthy(value_data) THEN STATE_OFF ELSE STATE_ON
ZWaveTriggerSensor_state(value_data, invalidate, utcnow) ==
    IF ~Truthy(value_data) \/ invalidate <= utcnow
    THEN STATE_OFF ELSE STATE_ON

\* The state property of device i, read with raw values d at time utcnow.
state_all_as_trigger(i, d, invalidate, utcnow) ==
    ZWaveTriggerSensor_state(d[devices[i].value_id], invalidate, utcnow)
state(i, d, invalidate, utcnow) ==
    CASE devices[i].cls = ZWaveTriggerSensor ->
            ZWaveTriggerSensor_state(d[devices[i].value_id], invalidate, utcnow)
      [] devices[i].cls = ZWaveBinarySensor ->
            ZWaveBinarySensor_state(d[devices[i].value_id])
      [] OTHER -> d[devices[i].value_id]

\* self._value.value_id == value.value_id
match_always(own_value_id, value_id) == TRUE
value_id_matches(own_value_id, value_id) == own_value_id = value_id

\* dt_util.utcnow() + datetime.timedelta(seconds=self.re_arm_sec)
rearm_fixed_60(utcnow, re_arm_sec) == utcnow + 60
rearm_no_clock(utcnow, re_arm_sec) == re_arm_sec
new_invalidate_after(utcnow, re_arm_sec) == utcnow + re_arm_sec

\* ZWaveTriggerSensor.__init__: self.invalidate_after = dt_util.utcnow()
init_window_open(utcnow) == utcnow + ReArmUnitSec
initial_invalidate_after(utcnow) == utcnow

Timer(i, at) == [dev |-> i, at |-> at]
Event(op, v, d, ps) == [op |-> op, value_id |-> v, data |-> d, pushes |-> ps]

\* Devices whose value_changed passes its value_id test for value v.
Hit(v) == {i \in DOMAIN devices : value_id_matches(devices[i].value_id, v)}
\* Those among them that re-arm: trigger sensors, when value.data is truthy.
rearmed_on_any_data(v, d) ==
    {i \in Hit(v) : devices[i].cls = ZWaveTriggerSensor}
Rearmed(v, d) ==
    {i \in Hit(v) : devices[i].cls = ZWaveTriggerSensor /\ Truthy(d)}

\* track_point_in_time(self._hass, self.update_ha_state,
\* self.invalidate_after), for every device of S.
timers_at_now(S) == SetToBag({Timer(i, now) : i \in S})
RECURSIVE BagOfTimers(_)
BagOfTimers(S) ==
    IF S = {} THEN EmptyBag
    ELSE LET i == CHOOSE x \in S : TRUE
         IN  SetToBag({Timer(i, new_invalidate_after(now, devices[i].re_arm_sec))})
             (+) BagOfTimers(S \ {i})

\* setup_platform for the discovered value v: the entity is constructed
\* (ZWaveSensor.__init__ connects value_changed to the dispatcher,
\* ZWaveTriggerSensor.__init__ sets invalidate_after to utcnow()).
ZSetup(v) ==
    LET new == setup_platform(v, NetworkValues[v])
    IN  /\ Len(devices) + Len(new) <= MaxDevices
        /\ devices' = devices \o new
        /\ invalidate_after' = invalidate_after
                \o [k \in DOMAIN new |-> initial_invalidate_after(now)]
        /\ pushed' = pushed \o [k \in DOMAIN new |-> NoState]
        /\ last_on' = last_on \o [k \in DOMAIN new |-> NoTime]
        /\ ev' = Event("setup", v, 0, {})
        /\ UNCHANGED <<now, data, timers>>
        /\ UNCHANGED wvars
        /\ UNCHANGED svars

\* The network changes value v to d and sends SIGNAL_VALUE_CHANGED: the
\* value_changed of every connected device runs.  A matching device pushes
\* its state first and re-arms afterwards.  The first two conjuncts bound
\* the model: the pending timers, and the horizon of the clock.
ZNotify(v, d) ==
    /\ BagCardinality(timers) + Cardinality(Rearmed(v, d)) <= MaxTimers
    /\ \A i \in Rearmed(v, d) : now + devices[i].re_arm_sec <= MaxTime
    /\ data' = [data EXCEPT ![v] = d]
    /\ pushed' = [i \in DOMAIN devices |->
                    IF i \in Hit(v)
                    THEN state(i, data', invalidate_after[i], now)
                    ELSE pushed[i]]
    /\ invalidate_after' = [i \in DOMAIN devices |->
                    IF i \in Rearmed(v, d)
                    THEN new_invalidate_after(now, devices[i].re_arm_sec)
                    ELSE invalidate_after[i]]
    /\ timers' = timers (+) BagOfTimers(Rearmed(v, d))
    /\ last_on' = [i \in DOMAIN devices |->
                    IF i \in Hit(v) /\ devices[i].cls = ZWaveTriggerSensor
                    THEN (IF Truthy(d) THEN now ELSE NoTime)
                    ELSE last_on[i]]
    /\ ev' = Event("notify", v, d, Hit(v))
    /\ UNCHANGED <<now, devices>>
    /\ UNCHANGED wvars
    /\ UNCHANGED svars

\* track_point_in_time: the host may run a pending listener once, at or
\* after its point in time.
TimerDue(tm) ==
    /\ tm \in BagToSet(timers)
    /\ now >= tm.at

\* A due listener runs: the callback is update_ha_state of the device, and
\* the listener is gone.
ZTimerFire(tm) ==
    /\ TimerDue(tm)
    /\ pushed' = [pushed EXCEPT
                    ![tm.dev] = state(tm.dev, data, invalidate_after[tm.dev], now)]
    /\ timers' = timers (-) SetToBag({tm})
    /\ ev' = Event("timer", devices[tm.dev].value_id, 0, {tm.dev})
    /\ UNCHANGED <<now, data, devices, invalidate_after, last_on>>
    /\ UNCHANGED wvars
    /\ UNCHANGED svars

\* Time passes.
Tick ==
    /\ now < MaxTime
    /\ now' = now + TickSec
    /\ ev' = Event("tick", 0, 0, {})
    /\ UNCHANGED <<data, devices, invalidate_after, timers, pushed, last_on>>
    /\ UNCHANGED wvars
    /\ UNCHANGED svars

ZInit ==
    /\ now = 0
    /\ data = [v \in ValueIds |-> 0]
    /\ devices = << >>
    /\ invalidate_after = << >>
    /\ timers = EmptyBag
    /\ pushed = << >>
    /\ last_on = << >>
    /\ ev = Event("init", 0, 0, {})

WIdle ==
    /\ registry = 0
    /\ created = 0
    /\ started = << >>
    /\ stopped = << >>
    /\ listeners = 0
    /\ listened = 0
    /\ shutdown = FALSE
    /\ stopping = 0
    /\ pc = << >>
    /\ info = << >>
    /\ switches = << >>
    /\ wemo_state = << >>
    /\ registered = << >>
    /\ refreshed = << >>
    /\ updating = << >>
    /\ wev = << >>

\* No sensor.zwave setup_platform call and no multilevel reading is under way.
SIdle ==
    /\ disc = None
    /\ outcome = None
    /\ reading = None
    /\ shown = None

Init == ZInit /\ WIdle /\ SIdle

Next ==
    \/ \E v \in ValueIds : ZSetup(v)
    \/ \E v \in ValueIds, d \in RawData : ZNotify(v, d)
    \/ \E tm \in BagToSet(timers) : ZTimerFire(tm)
    \/ Tick

Spec == Init /\ [][Next]_vars

----------------------------------------------------------------------------
(* sensor/zwave.py: one setup_platform call, for any discovered value *)

\* What discovery can announce: every combination of node identity, value
\* index, command class, value type and configuration parameter 9.
Manufacturers == {PHILIO, "0086"}
Products == {PHILIO_SLIM_SENSOR, "0005"}
Indexes == {0, 1}
CommandClasses ==
    {COMMAND_CLASS_SENSOR_BINARY, COMMAND_CLASS_SENSOR_MULTILEVEL,
     COMMAND_CLASS_METER, COMMAND_CLASS_ALARM, "COMMAND_CLASS_BATTERY"}
ValueTypes == {TYPE_DECIMAL, "Int"}
ConfigValues == {None} \cup {Some(m) : m \in 0..MaxMultiplier}
DiscoveredValues ==
    [manufacturer_id : Manufacturers, product_id : Products, index : Indexes,
     command_class : CommandClasses, type : ValueTypes, config9 : ConfigValues]

\* discovery_info: None when the platform is set up from the configuration
\* file, otherwise it designates a value of the network.
ZWaveDiscoveryInfos == {None} \cup {Some(value) : value \in DiscoveredValues}

Outcome(added, raised) == [added |-> added, raised |-> raised]

\* setup_platform(hass, config, add_devices, discovery_info): the devices
\* handed to add_devices and the exception raised, if any.  The value
\* designated by discovery_info has value_id 1.
call_without_none_check(discovery_info) ==
    IF discovery_info = None
    THEN Outcome(<< >>, Some("TypeError"))
    ELSE Outcome(setup_platform(1, discovery_info[1]), None)
zwave_setup_platform(discovery_info) ==
    IF discovery_info = None
    THEN Outcome(<< >>, None)
    ELSE Outcome(setup_platform(1, discovery_info[1]), None)

\* The host calls setup_platform with the discovery_info under way.
SSetup ==
    /\ disc # None
    /\ outcome = None
    /\ outcome' = Some(zwave_setup_platform(disc[1]))
    /\ UNCHANGED <<disc, reading, shown>>
    /\ UNCHANGED zvars
    /\ UNCHANGED wvars

SInit ==
    /\ ZInit
    /\ WIdle
    /\ \E di \in ZWaveDiscoveryInfos : disc = Some(di)
    /\ outcome = None
    /\ reading = None
    /\ shown = None

SNext == SSetup

SetupSpec == SInit /\ [][SNext]_vars

----------------------------------------------------------------------------
(* sensor/zwave.py: ZWaveMultilevelSensor *)

TEMP_CELCIUS == "TEMP_CELCIUS"
TEMP_FAHRENHEIT == "TEMP_FAHRENHEIT"

\* Raw values (value.data).  A float is the binary float nearest to a decimal
\* numeral with five decimal places: [type |-> "float", n |-> 2126600] is
\* float('21.266'); neg is its sign bit, which tells -0.0 from 0.0.  An int
\* is [type |-> "int", n |-> 5]; a string is [type |-> "str", n |-> k], the
\* k-th of the strings tried.
Scale == 100000
PyFloat(n) == [type |-> "float", n |-> n, neg |-> n < 0]
NegativeZero == [type |-> "float", n |-> 0, neg |-> TRUE]
PyInt(n) == [type |-> "int", n |-> n]
PyStr(k) == [type |-> "str", n |-> k]

\* Fractional parts tried.  Some are halfway between two results: .25, .75
\* (one decimal place) and .125, .375 (two) are exact binary fractions;
\* .05, .35, .45 (one) and .005, .015, .675 (two) are not, and the float is
\* a little below or above the numeral.
Fractions ==
    {0, 500, 1500, 4000, 5000, 12500, 14159, 25000, 26600, 35000, 37500,
     45000, 50000, 67500, 75000, 96000, 99600}
Floats ==
    {PyFloat(w * Scale + f) : w \in (-MaxWhole)..MaxWhole, f \in Fractions}
        \cup {PyFloat(2126600), PyFloat(6804000), PyFloat(314159),
              NegativeZero}
Ints == {PyInt(i) : i \in (-MaxWhole)..MaxWhole} \cup {PyInt(5)}
Strs == {PyStr(0), PyStr(1)}
RawValues == Floats \cup Ints \cup Strs
Units == {"C", "F", "lux", "count"}
Readings == [data : RawValues, units : Units]

Returned(x) == [returned |-> Some(x), raised |-> None]
Raised(exc) == [returned |-> None, raised |-> Some(exc)]

\* The binary exponent of the float a / Scale, a > 0: the e with
\* 2^e <= a / Scale < 2^(e+1).
RECURSIVE ExponentFrom(_, _, _)
ExponentFrom(a, b, e) ==
    IF a >= 2 * b THEN ExponentFrom(a, 2 * b, e + 1)
    ELSE IF a < b THEN ExponentFrom(2 * a, b, e - 1)
    ELSE e
Exponent(a) == ExponentFrom(a, Scale, 0)

RECURSIVE PowerOfTwoMod(_, _)
PowerOfTwoMod(s, m) == IF s = 0 THEN 1 % m ELSE (2 * PowerOfTwoMod(s - 1, m)) % m

\* How the float nearest to a / Scale (a > 0, 53 significant bits) compares
\* with a / Scale itself: 0 when it is exact, -1 when it is below, 1 when it
\* is above.  The float is M / 2^(52 - e) with M the integer nearest to
\* a * 2^(52 - e) / Scale = a * 2^(47 - e) / 3125; what decides is the
\* remainder of a * 2^(47 - e) by 3125.
FloatError(a) ==
    LET odd == Scale \div 32
        rem == ((a % odd) * PowerOfTwoMod(47 - Exponent(a), odd)) % odd
    IN  IF rem = 0 THEN 0 ELSE IF 2 * rem < odd THEN -1 ELSE 1

\* Python's round(value, ndigits), ndigits >= 0: an int is returned as it
\* is; a float is rounded, as the exact binary number it is, to the nearest
\* multiple of 10^-ndigits, a true tie going to the even one, and keeps its
\* sign; anything else has no __round__ and raises.
round(value, ndigits) ==
    IF value.type = "int" THEN Returned(value)
    ELSE IF value.type = "float"
    THEN LET step == Scale \div (10 ^ ndigits)
             a == IF value.n < 0 THEN -value.n ELSE value.n
             q == a \div step
             r == a % step
             up == IF 2 * r > step THEN 1
                   ELSE IF 2 * r < step THEN 0
                   ELSE IF FloatError(a) = 0 THEN q % 2
                   ELSE IF FloatError(a) > 0 THEN 1
                   ELSE 0
             m == (q + up) * step
         IN  Returned([type |-> "float",
                       n |-> IF value.neg THEN -m ELSE m,
                       neg |-> value.neg])
    ELSE Raised("TypeError")

\* ZWaveMultilevelSensor.state
state_rounds_all_to_2(value, units) ==
    IF value.type = "float" THEN round(value, 2) ELSE Returned(value)
ZWaveMultilevelSensor_state(value, units) ==
    IF units \in {"C", "F"} THEN round(value, 1)
    ELSE IF value.type = "float" THEN round(value, 2)
    ELSE Returned(value)

\* ZWaveMultilevelSensor.unit_of_measurement
ZWaveMultilevelSensor_unit_of_measurement(unit) ==
    IF unit = "C" THEN TEMP_CELCIUS
    ELSE IF unit = "F" THEN TEMP_FAHRENHEIT
    ELSE unit

\* The host reads state and unit_of_measurement of the sensor.
NRead ==
    /\ reading # None
    /\ shown = None
    /\ shown' = Some([state |-> ZWaveMultilevelSensor_state(
                                  reading[1].data, reading[1].units),
                      unit_of_measurement |->
                          ZWaveMultilevelSensor_unit_of_measurement(
                                  reading[1].units)])
    /\ UNCHANGED <<disc, outcome, reading>>
    /\ UNCHANGED zvars
    /\ UNCHANGED wvars

NInit ==
    /\ ZInit
    /\ WIdle
    /\ disc = None
    /\ outcome = None
    /\ \E rd \in Readings : reading = Some(rd)
    /\ shown = None

NNext == NRead

ReadSpec == NInit /\ [][NNext]_vars

----------------------------------------------------------------------------
(* switch/wemo.py *)

\* The pywemo devices on the network.  is_switch: isinstance(_, pywemo.Switch).
WemoDevices ==
    <<[model_name |-> "Insight", is_switch |-> TRUE],
      [model_name |-> "Maker", is_switch |-> FALSE],
      [model_name |-> "Socket", is_switch |-> TRUE]>>
WemoIds == 1..Len(WemoDevices)

\* discovery_info of a call: None, or the description of a device; device 0
\* is a description from which device_from_description builds nothing.
DiscoveryInfos ==
    {[is_none |-> TRUE, device |-> 0]}
        \cup {[is_none |-> FALSE, device |-> d] : d \in {0} \cup WemoIds}

\* What the pywemo device answers during a refresh.
BinaryStates == {0, 1}
InsightParams ==
    {[state |-> st, currentpower |-> 1500, todaymw |-> 7] :
        st \in {"0", "1", "8"}}
MakerParams ==
    {[sensorstate |-> ss, switchmode |-> 0, hassensor |-> hs] :
        ss \in {0, 1}, hs \in {0, 1}}
StandbyStates == {"on", "standby"}
Exceptions == {"AttributeError", "OtherError"}

\* The threads that call WemoSwitch.update(): the host's polling of the
\* entity, and the subscription registry's thread, through _update_callback
\* and update_ha_state(True).
UpdateThreads == {"poll", "subscription"}
Idle == [switch |-> 0, line |-> "idle"]

\* WemoSwitch.__init__
WemoSwitch(d) == [wemo |-> d, insight_params |-> None, maker_params |-> None]

\* self.insight_params['standby_state'] = self.wemo.get_standby_state
WithStandby(params, sb) ==
    [f \in DOMAIN params \cup {"standby_state"} |->
        IF f = "standby_state" THEN sb ELSE params[f]]

\* except AttributeError
Caught(exc) == exc = "AttributeError"

\* The branch update() takes after get_state(True): line 165 for an Insight,
\* line 169 for a Maker, the end for any other model.
AfterModelName(model_name) ==
    IF model_name = "Insight" THEN "L165"
    ELSE IF model_name = "Maker" THEN "L169"
    ELSE "end"

\* The telemetry properties of WemoSwitch.
current_power_mwh(sw) ==
    IF Present(sw.insight_params)
    THEN Some(sw.insight_params[1].currentpower) ELSE None
today_power_mw(sw) ==
    IF Present(sw.insight_params)
    THEN Some(sw.insight_params[1].todaymw) ELSE None
is_standby(sw) ==
    IF Present(sw.insight_params)
    THEN LET standby_state == sw.insight_params[1].state
         IN  IF standby_state = "1" \/ standby_state = "0"
             THEN Some(FALSE) ELSE Some(TRUE)
    ELSE None
has_sensor(sw) ==
    IF Present(sw.maker_params)
    THEN Some(sw.maker_params[1].hassensor) ELSE None
switch_mode(sw) ==
    IF Present(sw.maker_params)
    THEN Some(sw.maker_params[1].switchmode) ELSE None
sensor_state(sw) ==
    IF Present(sw.maker_params) /\ Truthy(has_sensor(sw)[1])
    THEN IF Truthy(sw.maker_params[1].sensorstate)
         THEN Some(STATE_OFF) ELSE Some(STATE_ON)
    ELSE None

\* WemoSwitch.is_on and WemoSwitch.state
is_on(sw) == wemo_state[sw.wemo]
WemoSwitch_state(sw) ==
    IF ~Truthy(is_on(sw)) THEN STATE_OFF
    ELSE IF is_standby(sw) = Some(TRUE) THEN STATE_STANDBY
    ELSE STATE_ON

\* What pywemo.discover_devices() can return: the devices a scan found, in
\* the order it found them.
Scans ==
    {found \in UNION {[1..n -> WemoIds] : n \in 0..Len(WemoDevices)} :
        \A i, j \in DOMAIN found : found[i] = found[j] => i = j}

\* isinstance(switch, pywemo.Switch)
IsSwitch(d) == WemoDevices[d].is_switch

\* The devices a call wraps in WemoSwitch, in order: the one described by
\* discovery_info, or the pywemo.Switch instances among those a scan
\* returned, in the order of the scan.
NewSwitches(di, found) ==
    IF ~di.is_none
    THEN IF di.device # 0 THEN <<di.device>> ELSE << >>
    ELSE SelectSeq(found, IsSwitch)

Range(f) == {f[k] : k \in DOMAIN f}

\* A discovery callback or the configuration calls setup_platform.
WCall(di) ==
    /\ Len(pc) < MaxCalls
    /\ pc' = Append(pc, "L28")
    /\ info' = Append(info, di)
    /\ UNCHANGED <<registry, created, started, stopped, listeners, listened,
                   shutdown, stopping, switches, wemo_state, registered,
                   refreshed, updating, wev>>
    /\ UNCHANGED zvars
    /\ UNCHANGED svars

\* line 28: if _WEMO_SUBSCRIPTION_REGISTRY is None
WCheck(t) ==
    /\ pc[t] = "L28"
    /\ pc' = [pc EXCEPT ![t] = IF registry = 0 THEN "L29" ELSE "L39"]
    /\ UNCHANGED <<registry, created, started, stopped, listeners, listened,
                   shutdown, stopping, info, switches, wemo_state, registered,
                   refreshed, updating, wev>>
    /\ UNCHANGED zvars
    /\ UNCHANGED svars

\* line 29: _WEMO_SUBSCRIPTION_REGISTRY = pywemo.SubscriptionRegistry()
WCreate(t) ==
    /\ pc[t] = "L29"
    /\ created' = created + 1
    /\ registry' = created + 1
    /\ started' = Append(started, 0)
    /\ stopped' = Append(stopped, 0)
    /\ pc' = [pc EXCEPT ![t] = "L30"]
    /\ UNCHANGED <<listeners, listened, shutdown, stopping, info, switches,
                   wemo_state, registered, refreshed, updating, wev>>
    /\ UNCHANGED zvars
    /\ UNCHANGED svars

\* line 30: _WEMO_SUBSCRIPTION_REGISTRY.start()
WStart(t) ==
    /\ pc[t] = "L30"
    /\ started' = [started EXCEPT ![registry] = @ + 1]
    /\ pc' = [pc EXCEPT ![t] = "L37"]
    /\ UNCHANGED <<registry, created, stopped, listeners, listened, shutdown,
                   stopping, info, switches, wemo_state, registered, refreshed,
                   updating, wev>>
    /\ UNCHANGED zvars
    /\ UNCHANGED svars

\* line 37: hass.bus.listen_once(EVENT_HOMEASSISTANT_STOP, stop_wemo)
WListen(t) ==
    /\ pc[t] = "L37"
    /\ listeners' = listeners + 1
    /\ listened' = listened + 1
    /\ pc' = [pc EXCEPT ![t] = "L39"]
    /\ UNCHANGED <<registry, created, started, stopped, shutdown, stopping,
                   info, switches, wemo_state, registered, refreshed, updating,
                   wev>>
    /\ UNCHANGED zvars
    /\ UNCHANGED svars

\* lines 39-55: the WemoSwitch entities are constructed, in the order of the
\* scan (each registers its device with the registry), and handed to
\* add_devices_callback.
WAddDevices(t, found) ==
    /\ pc[t] = "L39"
    /\ LET new == NewSwitches(info[t], found)
       IN  /\ Len(switches) + Len(new) <= MaxSwitches
           /\ switches' = switches \o [k \in DOMAIN new |-> WemoSwitch(new[k])]
           /\ refreshed' = refreshed \o [k \in DOMAIN new |-> FALSE]
           /\ registered' = [d \in WemoIds |->
                    IF d \in Range(new) THEN registered[d] + 1 ELSE registered[d]]
    /\ pc' = [pc EXCEPT ![t] = "done"]
    /\ UNCHANGED <<registry, created, started, stopped, listeners, listened,
                   shutdown, stopping, info, wemo_state, updating, wev>>
    /\ UNCHANGED zvars
    /\ UNCHANGED svars

\* EVENT_HOMEASSISTANT_STOP fires: the host takes the listen_once listeners
\* registered so far and will run each of them once.  A listener registered
\* afterwards is never run.
WShutdown ==
    /\ ~shutdown
    /\ shutdown' = TRUE
    /\ stopping' = listeners
    /\ listeners' = 0
    /\ UNCHANGED <<registry, created, started, stopped, listened, pc, info,
                   switches, wemo_state, registered, refreshed, updating, wev>>
    /\ UNCHANGED zvars
    /\ UNCHANGED svars

\* lines 32-35: one stop_wemo callback runs and stops the registry the global
\* names at that moment.
stop_wemo ==
    /\ stopping > 0
    /\ stopping' = stopping - 1
    /\ stopped' = [stopped EXCEPT ![registry] = @ + 1]
    /\ UNCHANGED <<registry, created, started, listeners, listened, shutdown,
                   pc, info, switches, wemo_state, registered, refreshed,
                   updating, wev>>
    /\ UNCHANGED zvars
    /\ UNCHANGED svars

\* lines 152-154: turn_on calls self.wemo.on(), after which the device's
\* cached state is 1.
turn_on(k) ==
    /\ k \in DOMAIN switches
    /\ wemo_state' = [wemo_state EXCEPT ![switches[k].wemo] = 1]
    /\ UNCHANGED <<registry, created, started, stopped, listeners, listened,
                   shutdown, stopping, pc, info, switches, registered,
                   refreshed, updating, wev>>
    /\ UNCHANGED zvars
    /\ UNCHANGED svars

\* lines 156-158: turn_off calls self.wemo.off(), after which the device's
\* cached state is 0.
turn_off(k) ==
    /\ k \in DOMAIN switches
    /\ wemo_state' = [wemo_state EXCEPT ![switches[k].wemo] = 0]
    /\ UNCHANGED <<registry, created, started, stopped, listeners, listened,
                   shutdown, stopping, pc, info, switches, registered,
                   refreshed, updating, wev>>
    /\ UNCHANGED zvars
    /\ UNCHANGED svars

ModelOf(sw) == WemoDevices[sw.wemo].model_name
Outcomes == {"none"} \cup Exceptions

\* A thread enters update() of switch k (the host polls the entity, or
\* _update_callback runs update_ha_state(True)).
WUpdateCall(t, k) ==
    /\ updating[t] = Idle
    /\ k \in DOMAIN switches
    /\ updating' = [updating EXCEPT ![t] = [switch |-> k, line |-> "L163"]]
    /\ UNCHANGED <<registry, created, started, stopped, listeners, listened,
                   shutdown, stopping, pc, info, switches, wemo_state,
                   registered, refreshed, wev>>
    /\ UNCHANGED zvars
    /\ UNCHANGED svars

\* update() of thread t ends, the try body having raised exc and the except
\* clause handler ("none" for each that did not raise): it returns when
\* nothing was raised, or when AttributeError was caught and the warning
\* logged, and otherwise raises to its caller what the try body raised and
\* the except clause does not catch, or what the handler raised.
Ends(t, exc, handler) ==
    /\ updating' = [updating EXCEPT ![t] = Idle]
    /\ refreshed' = [refreshed EXCEPT ![updating[t].switch] = @ \/ exc = "none"]
    /\ wev' = [switch |-> updating[t].switch, raised |-> exc,
               handler |-> handler,
               propagated |-> (exc # "none" /\ ~Caught(exc))
                                \/ handler # "none"]

\* update() of thread t goes on to the given line.
GoesOn(t, line) ==
    /\ updating' = [updating EXCEPT ![t].line = line]
    /\ UNCHANGED <<refreshed, wev>>

\* A line of the try body raises exc: AttributeError takes update() to the
\* handler at line 171, anything else leaves update().
Raises(t, exc) ==
    IF Caught(exc) THEN GoesOn(t, "L171") ELSE Ends(t, exc, "none")

\* line 163: self.wemo.get_state(True); the device answers new_state, or the
\* call raises exc.
WUpdateGetState(t, new_state, exc) ==
    /\ updating[t].line = "L163"
    /\ IF exc = "none"
       THEN /\ wemo_state' = [wemo_state EXCEPT
                                ![switches[updating[t].switch].wemo] = new_state]
            /\ GoesOn(t, "L164")
       ELSE /\ UNCHANGED wemo_state
            /\ Raises(t, exc)
    /\ UNCHANGED <<registry, created, started, stopped, listeners, listened,
                   shutdown, stopping, pc, info, switches, registered>>
    /\ UNCHANGED zvars
    /\ UNCHANGED svars

\* lines 164 and 168: the tests of self.wemo.model_name, or reading it
\* raises exc.
WUpdateModelName(t, exc) ==
    /\ updating[t].line = "L164"
    /\ LET next == AfterModelName(ModelOf(switches[updating[t].switch]))
       IN  IF exc # "none" THEN Raises(t, exc)
           ELSE IF next # "end" THEN GoesOn(t, next)
           ELSE Ends(t, "none", "none")
    /\ UNCHANGED <<registry, created, started, stopped, listeners, listened,
                   shutdown, stopping, pc, info, switches, wemo_state,
                   registered>>
    /\ UNCHANGED zvars
    /\ UNCHANGED svars

\* line 165: self.insight_params = self.wemo.insight_params; the device
\* answers insight, or reading it raises exc.
WUpdateInsightParams(t, insight, exc) ==
    /\ updating[t].line = "L165"
    /\ IF exc = "none"
       THEN /\ switches' = [switches EXCEPT
                              ![updating[t].switch].insight_params = Some(insight)]
            /\ GoesOn(t, "L166")
       ELSE /\ UNCHANGED switches
            /\ Raises(t, exc)
    /\ UNCHANGED <<registry, created, started, stopped, listeners, listened,
                   shutdown, stopping, pc, info, wemo_state, registered>>
    /\ UNCHANGED zvars
    /\ UNCHANGED svars

\* lines 166-167: self.wemo.get_standby_state is read (the device answers
\* standby, or reading it raises exc) and stored under 'standby_state' in the
\* snapshot self.insight_params names at that moment.
WUpdateStandbyState(t, standby, exc) ==
    /\ updating[t].line = "L166"
    /\ IF exc = "none"
       THEN switches' = [switches EXCEPT
                           ![updating[t].switch].insight_params =
                               Some(WithStandby(@[1], standby))]
       ELSE UNCHANGED switches
    /\ IF exc = "none" THEN Ends(t, "none", "none") ELSE Raises(t, exc)
    /\ UNCHANGED <<registry, created, started, stopped, listeners, listened,
                   shutdown, stopping, pc, info, wemo_state, registered>>
    /\ UNCHANGED zvars
    /\ UNCHANGED svars

\* line 169: self.maker_params = self.wemo.maker_params; the device answers
\* maker, or reading it raises exc.
WUpdateMakerParams(t, maker, exc) ==
    /\ updating[t].line = "L169"
    /\ IF exc = "none"
       THEN switches' = [switches EXCEPT
                           ![updating[t].switch].maker_params = Some(maker)]
       ELSE UNCHANGED switches
    /\ IF exc = "none" THEN Ends(t, "none", "none") ELSE Raises(t, exc)
    /\ UNCHANGED <<registry, created, started, stopped, listeners, listened,
                   shutdown, stopping, pc, info, wemo_state, registered>>
    /\ UNCHANGED zvars
    /\ UNCHANGED svars

\* lines 170-171: the handler of AttributeError formats the warning with
\* self.name, which reads self.wemo.name; the read answers and the warning
\* is logged, or it raises exc, which leaves update().
WUpdateWarning(t, exc) ==
    /\ updating[t].line = "L171"
    /\ Ends(t, "AttributeError", exc)
    /\ UNCHANGED <<registry, created, started, stopped, listeners, listened,
                   shutdown, stopping, pc, info, switches, wemo_state,
                   registered>>
    /\ UNCHANGED zvars
    /\ UNCHANGED svars

NoUpdate == [t \in UpdateThreads |-> Idle]
NoOutcome == [switch |-> 0, raised |-> "none", handler |-> "none",
              propagated |-> FALSE]

WInit ==
    /\ ZInit
    /\ SIdle
    /\ registry = 0
    /\ created = 0
    /\ started = << >>
    /\ stopped = << >>
    /\ listeners = 0
    /\ listened = 0
    /\ shutdown = FALSE
    /\ stopping = 0
    /\ pc = << >>
    /\ info = << >>
    /\ switches = << >>
    /\ wemo_state = [d \in WemoIds |-> 0]
    /\ registered = [d \in WemoIds |-> 0]
    /\ refreshed = << >>
    /\ updating = NoUpdate
    /\ wev = NoOutcome

WNext ==
    \/ \E di \in DiscoveryInfos : WCall(di)
    \/ \E t \in DOMAIN pc : WCheck(t)
    \/ \E t \in DOMAIN pc : WCreate(t)
    \/ \E t \in DOMAIN pc : WStart(t)
    \/ \E t \in DOMAIN pc : WListen(t)
    \/ \E t \in DOMAIN pc, found \in Scans : WAddDevices(t, found)
    \/ WShutdown
    \/ stop_wemo

WemoSpec == WInit /\ [][WNext]_vars

\* The switches of a network once set up: setup_platform has run for the
\* devices ds, one discovery call each, and nothing has been refreshed yet.
SwitchLists ==
    UNION {[1..n -> WemoIds] : n \in 1..MaxRefreshed}

UInit ==
    /\ ZInit
    /\ SIdle
    /\ registry = 1
    /\ created = 1
    /\ started = <<1>>
    /\ stopped = <<0>>
    /\ listeners = 1
    /\ listened = 1
    /\ shutdown = FALSE
    /\ stopping = 0
    /\ \E ds \in SwitchLists :
          /\ pc = [k \in DOMAIN ds |-> "done"]
          /\ info = [k \in DOMAIN ds |-> [is_none |-> FALSE, device |-> ds[k]]]
          /\ switches = [k \in DOMAIN ds |-> WemoSwitch(ds[k])]
          /\ refreshed = [k \in DOMAIN ds |-> FALSE]
          /\ registered = [d \in WemoIds |->
                            Cardinality({k \in DOMAIN ds : ds[k] = d})]
    /\ wemo_state = [d \in WemoIds |-> 0]
    /\ updating = NoUpdate
    /\ wev = NoOutcome

\* The switches are turned on and off and refreshed, by the host's polling
\* and by the subscription callback, in any interleaving.
UNext ==
    \/ \E k \in DOMAIN switches : turn_on(k)
    \/ \E k \in DOMAIN switches : turn_off(k)
    \/ \E t \in UpdateThreads, k \in DOMAIN switches : WUpdateCall(t, k)
    \/ \E t \in UpdateThreads, new_state \in BinaryStates, exc \in Outcomes :
          WUpdateGetState(t, new_state, exc)
    \/ \E t \in UpdateThreads, exc \in Outcomes : WUpdateModelName(t, exc)
    \/ \E t \in UpdateThreads, insight \in InsightParams, exc \in Outcomes :
          WUpdateInsightParams(t, insight, exc)
    \/ \E t \in UpdateThreads, standby \in StandbyStates, exc \in Outcomes :
          WUpdateStandbyState(t, standby, exc)
    \/ \E t \in UpdateThreads, maker \in MakerParams, exc \in Outcomes :
          WUpdateMakerParams(t, maker, exc)
    \/ \E t \in UpdateThreads, exc \in Outcomes : WUpdateWarning(t, exc)

UpdateSpec == UInit /\ [][UNext]_vars

\* The host's scheduler fires every pending re-evaluation whose time has
\* come, and time passes.  On notifications stop: a re-arm is only accepted
\* while its expiry lies within the horizon MaxTime.
LiveSpec ==
    /\ Init
    /\ [][Next]_vars
    /\ WF_vars(Tick)
    /\ WF_vars(\E tm \in BagToSet(timers) : ZTimerFire(tm))

----------------------------------------------------------------------------
(* Properties of the trigger sensor *)

IsTrigger(i) == devices[i].cls = ZWaveTriggerSensor
\* The canonical state of device i, as the state property computes it now.
Canonical(i) == state(i, data, invalidate_after[i], now)
\* The step taken is a notification for the value of device i.
NotifiedStep(i) ==
    /\ ev'.op = "notify"
    /\ ev'.value_id = devices[i].value_id
    /\ <<pushed, invalidate_after, timers, data, ev>>
         # <<pushed', invalidate_after', timers', data', ev'>>
\* The step taken is a timer callback of device i.
TimerStep(i) ==
    /\ ev'.op = "timer"
    /\ ev'.pushes = {i}
    /\ timers' # timers

\* C1: an Armed trigger sensor (invalidate_after <= now) that handles a
\* notification for its own value id with truthy data pushes On to the host
\* in that handling.
C1_ArmedOnNotificationPushesOn ==
    [][\A i \in DOMAIN devices :
          (/\ IsTrigger(i)
           /\ invalidate_after[i] <= now
           /\ ev'.op = "notify"
           /\ ev'.value_id = devices[i].value_id
           /\ Truthy(ev'.data)
           /\ i \in ev'.pushes)
          => pushed'[i] = STATE_ON]_vars

\* C2: after a matching On notification handled at time t and no further
\* notification for the sensor, the state property gives On at every time
\* t <= now < t + re_arm_sec and Off at every time after t + re_arm_sec.
C2_OnDuringWindowOffAfter ==
    \A i \in DOMAIN devices :
        (IsTrigger(i) /\ last_on[i] # NoTime) =>
            LET expires_at == last_on[i] + devices[i].re_arm_sec
            IN  /\ last_on[i] <= now
                /\ (now < expires_at => Canonical(i) = STATE_ON)
                /\ (now > expires_at => Canonical(i) = STATE_OFF)

\* C2 witness: the window of an On notification has passed with no further
\* notification, and the sensor reads Off.
C2_Witness ==
    \E i \in DOMAIN devices :
        /\ IsTrigger(i)
        /\ last_on[i] # NoTime
        /\ now > last_on[i] + devices[i].re_arm_sec
        /\ Canonical(i) = STATE_OFF

\* C3: when a matching On notification arrives before the window of the
\* previous one has expired, the sensor reads On up to that notification,
\* the notification pushes On and moves the expiry no earlier; and at every
\* instant before the expiry of the latest On notification the sensor reads
\* On.
C3_RetriggerKeepsOnWithoutGap ==
    [][\A i \in DOMAIN devices :
          IsTrigger(i) =>
            /\ (/\ NotifiedStep(i)
                /\ Truthy(ev'.data)
                /\ last_on[i] # NoTime
                /\ now < last_on[i] + devices[i].re_arm_sec)
               => /\ Canonical(i) = STATE_ON
                  /\ pushed'[i] = STATE_ON
                  /\ invalidate_after'[i] >= invalidate_after[i]
            /\ (last_on'[i] # NoTime /\ now' < last_on'[i] + devices[i].re_arm_sec)
               => Canonical(i)' = STATE_ON]_vars

\* C3 witness: an On notification has just been handled inside the window
\* of an earlier one, whose timer is still pending: On was pushed and the
\* window reaches further than that timer.
C3_Witness ==
    \E i \in DOMAIN devices :
        /\ IsTrigger(i)
        /\ ev.op = "notify"
        /\ ev.value_id = devices[i].value_id
        /\ Truthy(ev.data)
        /\ last_on[i] = now
        /\ pushed[i] = STATE_ON
        /\ \E tm \in BagToSet(timers) :
              tm.dev = i /\ now < tm.at /\ tm.at < invalidate_after[i]

\* C4: a re-evaluation that fires before the current invalidate_after, the
\* raw value still truthy, pushes On; it leaves invalidate_after alone, and
\* of the pending timers only the fired one goes (none added, none cancelled).
C4_StaleTimerKeepsOn ==
    [][\A i \in DOMAIN devices :
          (/\ IsTrigger(i)
           /\ TimerStep(i)
           /\ now < invalidate_after[i]
           /\ Truthy(data[devices[i].value_id]))
          => /\ pushed'[i] = STATE_ON
             /\ invalidate_after' = invalidate_after
             /\ \E tm \in BagToSet(timers) :
                   /\ tm.dev = i
                   /\ tm.at <= now
                   /\ timers' = timers (-) SetToBag({tm})]_vars

\* C4 witness: a timer of an earlier On notification has just fired inside
\* the window extended by a later one, and On was pushed.
C4_Witness ==
    \E i \in DOMAIN devices :
        /\ IsTrigger(i)
        /\ ev.op = "timer"
        /\ ev.pushes = {i}
        /\ now < invalidate_after[i]
        /\ Truthy(data[devices[i].value_id])
        /\ pushed[i] = STATE_ON

\* C5: with every scheduled re-evaluation fired at or after its time, once
\* On notifications have stopped the last state pushed for a trigger sensor
\* is eventually Off for good; and a sensor that reads Off with Off pushed
\* has Off pushed after every step but a matching On notification.
C5_EventuallyOffAndStaysOff ==
    /\ <>[](\A i \in DOMAIN devices : IsTrigger(i) => pushed[i] # STATE_ON)
    /\ [][\A i \in DOMAIN devices :
             (/\ IsTrigger(i)
              /\ pushed[i] = STATE_OFF
              /\ Canonical(i) = STATE_OFF
              /\ ~(NotifiedStep(i) /\ Truthy(ev'.data)))
             => pushed'[i] = STATE_OFF]_vars

\* C5 witness: the last notification of a trigger sensor was On, all its
\* re-evaluations have fired, and the last of them pushed Off.
C5_Witness ==
    \E i \in DOMAIN devices :
        /\ IsTrigger(i)
        /\ last_on[i] # NoTime
        /\ ev.op = "timer"
        /\ ev.pushes = {i}
        /\ timers = EmptyBag
        /\ pushed[i] = STATE_OFF

\* C6: right after the handling of a matching On notification
\* invalidate_after is later than the time of the handling, and it is never
\* earlier than it was before the handling.
C6_WindowInFutureAndMonotone ==
    [][\A i \in DOMAIN devices :
          (IsTrigger(i) /\ NotifiedStep(i) /\ Truthy(ev'.data))
          => /\ invalidate_after'[i] > now'
             /\ invalidate_after'[i] >= invalidate_after[i]]_vars

\* C6 witness: an On notification has just been handled while the timer of
\* an earlier one is still pending: the window was extended.
C6_Witness ==
    \E i \in DOMAIN devices :
        /\ IsTrigger(i)
        /\ ev.op = "notify"
        /\ ev.value_id = devices[i].value_id
        /\ Truthy(ev.data)
        /\ invalidate_after[i] > now
        /\ \E tm \in BagToSet(timers) : tm.dev = i /\ tm.at < invalidate_after[i]

\* C7: a notification whose value id is not the sensor's own pushes no state
\* for that sensor, leaves its invalidate_after alone and schedules no timer
\* for it.
C7_Isolation ==
    [][ev'.op = "notify" =>
          \A i \in DOMAIN devices :
              devices[i].value_id # ev'.value_id =>
                  /\ i \notin ev'.pushes
                  /\ pushed'[i] = pushed[i]
                  /\ invalidate_after'[i] = invalidate_after[i]
                  /\ \A tm \in BagToSet(timers') :
                        tm.dev = i => CopiesIn(tm, timers') = CopiesIn(tm, timers)]_vars

\* C7 witness: a notification for one value was handled by its own sensor
\* while a trigger sensor of another value, mid-window, was left alone.
C7_Witness ==
    \E i, j \in DOMAIN devices :
        /\ ev.op = "notify"
        /\ devices[i].value_id = ev.value_id
        /\ i \in ev.pushes
        /\ devices[j].value_id # ev.value_id
        /\ IsTrigger(j)
        /\ j \notin ev.pushes
        /\ Canonical(j) = STATE_ON
        /\ pushed[j] # pushed[i]

----------------------------------------------------------------------------
(* Properties of the WeMo platform *)

RECURSIVE Sum(_)
Sum(f) == IF f = << >> THEN 0 ELSE f[1] + Sum(Tail(f))

AllReturned == pc # << >> /\ \A t \in DOMAIN pc : pc[t] = "done"

\* C8: over any interleaving of setup_platform calls, one
\* SubscriptionRegistry is created, it is started once, one shutdown
\* listener is registered, and stop() is called once when the shutdown
\* event fires.
C8_SingleRegistry ==
    /\ created <= 1
    /\ Sum(started) <= 1
    /\ listened <= 1
    /\ Sum(stopped) <= 1
    /\ AllReturned => (created = 1 /\ Sum(started) = 1 /\ listened = 1)
    /\ (shutdown /\ listened >= 1 /\ listeners = 0 /\ stopping = 0)
            => Sum(stopped) = 1

\* The telemetry attributes of a switch.
Telemetry(sw) ==
    <<current_power_mwh(sw), today_power_mw(sw), is_standby(sw),
      sensor_state(sw), switch_mode(sw), has_sensor(sw)>>

\* An update() of switch k is under way on some thread.
UpdateUnderWay(k) == \E t \in DOMAIN updating : updating[t].switch = k

\* C9: every telemetry attribute of a switch is None as long as no update()
\* of the switch has completed without error.  The states in the middle of
\* an update() of the switch are left out: the property is about what the
\* updates that have ended leave behind.
C9_AbsentBeforeFirstRefresh ==
    \A k \in DOMAIN switches :
        (~refreshed[k] /\ ~UpdateUnderWay(k))
            => \A a \in 1..Len(Telemetry(switches[k])) :
                  Telemetry(switches[k])[a] = None

\* A snapshot that is present stays present.
SnapshotsKept ==
    \A k \in DOMAIN switches :
        /\ Present(switches[k].insight_params)
             => Present(switches'[k].insight_params)
        /\ Present(switches[k].maker_params)
             => Present(switches'[k].maker_params)

\* C10: an update() in which a step raises AttributeError returns normally,
\* and no update(), failed or not, takes a snapshot that is present back to
\* None.
C10_FailureKeepsSnapshot ==
    [][/\ (wev'.raised = "AttributeError" => ~wev'.propagated)
       /\ SnapshotsKept]_vars

----------------------------------------------------------------------------
(* Classification of discovered values, under SetupSpec *)

\* The value setup_platform was called for, and what it handed to add_devices.
Discovered == disc[1][1]
Added == outcome[1].added
Classes == [k \in DOMAIN Added |-> Added[k].cls]
CalledWithValue == outcome # None /\ disc[1] # None
InWorkaroundTable(value) ==
    <<value.manufacturer_id, value.product_id, value.index>>
        = PHILIO_SLIM_SENSOR_MOTION

\* C11: setup_platform creates at most one device for a discovered value: a
\* ZWaveTriggerSensor and only that when (manufacturer_id, product_id, index)
\* is in the workaround table, whatever the command class; otherwise the
\* ZWaveBinarySensor for the binary class, the ZWaveMultilevelSensor for the
\* multilevel class or a meter of decimal type, the ZWaveAlarmSensor for the
\* alarm class.
C11_Classification ==
    CalledWithValue =>
        /\ Len(Added) <= 1
        /\ InWorkaroundTable(Discovered) => Classes = <<ZWaveTriggerSensor>>
        /\ ~InWorkaroundTable(Discovered) =>
            /\ Discovered.command_class = COMMAND_CLASS_SENSOR_BINARY
                    => Classes = <<ZWaveBinarySensor>>
            /\ Discovered.command_class = COMMAND_CLASS_SENSOR_MULTILEVEL
                    => Classes = <<ZWaveMultilevelSensor>>
            /\ (Discovered.command_class = COMMAND_CLASS_METER
                 /\ Discovered.type = "Decimal")
                    => Classes = <<ZWaveMultilevelSensor>>
            /\ Discovered.command_class = COMMAND_CLASS_ALARM
                    => Classes = <<ZWaveAlarmSensor>>

\* A workaround device announcing an alarm value got its trigger sensor.
C11_Witness ==
    /\ CalledWithValue
    /\ InWorkaroundTable(Discovered)
    /\ Discovered.command_class = COMMAND_CLASS_ALARM
    /\ Classes = <<ZWaveTriggerSensor>>

\* No generic rule of setup_platform is written for the value.
Unclassified(value) ==
    /\ value.command_class # COMMAND_CLASS_SENSOR_BINARY
    /\ value.command_class # COMMAND_CLASS_SENSOR_MULTILEVEL
    /\ ~(value.command_class = COMMAND_CLASS_METER /\ value.type = "Decimal")
    /\ value.command_class # COMMAND_CLASS_ALARM

\* C12: setup_platform adds no device and raises no error when the value
\* matches no workaround entry and its command class is none of binary,
\* multilevel, decimal meter or alarm (a meter of another type included),
\* and when discovery_info is None.
C12_UnknownAddsNothingRaisesNothing ==
    (/\ outcome # None
     /\ \/ disc[1] = None
        \/ ~InWorkaroundTable(Discovered) /\ Unclassified(Discovered))
        => /\ outcome[1].added = << >>
           /\ outcome[1].raised = None

\* A meter value that is not decimal, of a device outside the table, was
\* set up.
C12_Witness ==
    /\ CalledWithValue
    /\ ~InWorkaroundTable(Discovered)
    /\ Discovered.command_class = COMMAND_CLASS_METER
    /\ Discovered.type = "Int"
    /\ outcome[1].added = << >>
    /\ outcome[1].raised = None

\* setup_platform created a trigger sensor; its re-arm window.
TriggerCreated == CalledWithValue /\ Classes = <<ZWaveTriggerSensor>>
Window == Added[1].re_arm_sec
Configured == Discovered.config9

\* C14 (as stated): the re-arm window of a trigger sensor created by
\* setup_platform is 8 times the multiplier, the multiplier being
\* configuration parameter 9 when it is present and 4 when it is absent; the
\* default window is 32, and the window is a positive multiple of 8 for any
\* positive configured multiplier.
C14_WindowIsEightTimesParameter ==
    TriggerCreated =>
        /\ Window = 8 * (IF Configured # None THEN Configured[1] ELSE 4)
        /\ Configured = None => Window = 32
        /\ (Configured # None /\ Configured[1] > 0)
                => Window > 0 /\ Window % 8 = 0

\* C14 (amended): the multiplier is configuration parameter 9 when it is
\* present and not zero, and 4 when it is absent or zero; the rest as stated.
C14_WindowIsEightTimesNonZeroParameter ==
    TriggerCreated =>
        /\ Window = 8 * (IF Configured # None /\ Configured[1] # 0
                         THEN Configured[1] ELSE 4)
        /\ Configured = None => Window = 32
        /\ (Configured # None /\ Configured[1] > 0)
                => Window > 0 /\ Window % 8 = 0

\* A trigger sensor was created for a node whose parameter 9 is set above
\* the default.
C14_Witness ==
    /\ TriggerCreated
    /\ Configured = Some(5)
    /\ Window = 40

----------------------------------------------------------------------------
(* Binary and trigger sensors, under Spec *)

\* The instants of the clock.
Instants == {k * TickSec : k \in 0..MaxTicks}
IsBinary(i) == devices[i].cls = ZWaveBinarySensor

\* C16: the state of a ZWaveBinarySensor is On when its raw value is truthy
\* and Off otherwise, and depends on the current raw value only: a read at
\* any instant gives that state, and so did the read of the last push,
\* made at an earlier time after another history, the raw value being the
\* same since.
C16_BinaryStateFollowsRawValueOnly ==
    \A i \in DOMAIN devices :
        IsBinary(i) =>
            /\ data[devices[i].value_id] # 0 => Canonical(i) = "on"
            /\ data[devices[i].value_id] = 0 => Canonical(i) = "off"
            /\ \A t \in Instants, inv \in Instants :
                    state(i, data, inv, t) = Canonical(i)
            /\ pushed[i] # NoState => pushed[i] = Canonical(i)

\* A binary sensor pushed On for a truthy value, and time has passed since.
C16_Witness ==
    \E i \in DOMAIN devices :
        /\ IsBinary(i)
        /\ data[devices[i].value_id] = 1
        /\ pushed[i] = "on"
        /\ ev.op = "tick"
        /\ now >= 2 * TickSec

\* The step leaves the pending re-evaluations of device i as they are.
SamePending(i) ==
    \A tm \in BagToSet(timers) \cup BagToSet(timers') :
        tm.dev = i => CopiesIn(tm, timers') = CopiesIn(tm, timers)

\* C17: the window of a trigger sensor is written only by the handling of a
\* matching On notification.  A matching notification with falsy data pushes
\* Off, leaves invalidate_after alone and schedules nothing; a timer callback
\* leaves every invalidate_after alone and, the fired listener apart,
\* the pending timers too; a notification for another value leaves the
\* sensor's invalidate_after and its pending timers alone.
C17_WindowWrittenOnlyByOnNotification ==
    [][\A i \in DOMAIN devices :
          IsTrigger(i) =>
            /\ invalidate_after'[i] # invalidate_after[i]
                    => NotifiedStep(i) /\ Truthy(ev'.data)
            /\ (NotifiedStep(i) /\ ~Truthy(ev'.data))
                    => /\ pushed'[i] = STATE_OFF
                       /\ invalidate_after'[i] = invalidate_after[i]
                       /\ timers' = timers
            /\ ev'.op = "timer"
                    => /\ invalidate_after' = invalidate_after
                       /\ \E tm \in BagToSet(timers) :
                             /\ tm.at <= now
                             /\ timers' = timers (-) SetToBag({tm})
            /\ (ev'.op = "notify" /\ ev'.value_id # devices[i].value_id)
                    => /\ invalidate_after'[i] = invalidate_after[i]
                       /\ SamePending(i)]_vars

\* An Off notification was handled inside the window: Off is pushed, the
\* window is still open and its re-evaluation still pending.
C17_Witness ==
    \E i \in DOMAIN devices :
        /\ IsTrigger(i)
        /\ ev.op = "notify"
        /\ ev.value_id = devices[i].value_id
        /\ ev.data = 0
        /\ pushed[i] = STATE_OFF
        /\ now < invalidate_after[i]
        /\ Timer(i, invalidate_after[i]) \in BagToSet(timers)

\* C18: a newly constructed ZWaveTriggerSensor is Armed.  Its state reads Off
\* in the state that follows its construction, whatever the raw value, and
\* a trigger sensor that reads Off reads Off after every step that is not
\* its handling of a matching On notification: so from construction to the
\* first matching On notification.
C18_ArmedUntilFirstOnNotification ==
    [][/\ \A i \in DOMAIN devices' \ DOMAIN devices :
              IsTrigger(i)' => Canonical(i)' = STATE_OFF
       /\ \A i \in DOMAIN devices :
              (/\ IsTrigger(i)
               /\ Canonical(i) = STATE_OFF
               /\ ~(NotifiedStep(i) /\ Truthy(ev'.data)))
              => Canonical(i)' = STATE_OFF]_vars

\* A trigger sensor constructed over a raw value already truthy has handled
\* nothing since, time has passed, and it reads Off.
C18_Witness ==
    \E i \in DOMAIN devices :
        /\ IsTrigger(i)
        /\ Truthy(data[devices[i].value_id])
        /\ pushed[i] = NoState
        /\ invalidate_after[i] < now
        /\ Canonical(i) = STATE_OFF

\* The pending re-evaluations of device i.
PendingOf(i, pending) ==
    {tm \in BagToSet(pending) : tm.dev = i}
CountOf(i, pending) ==
    BagCardinality([tm \in PendingOf(i, pending) |-> CopiesIn(tm, pending)])

\* C19: no lost wake-up.  Whenever a trigger sensor reads On, a re-evaluation
\* is pending, not yet fired, for exactly its current invalidate_after; the
\* handling of a matching On notification adds exactly one pending
\* re-evaluation for the sensor; and a pending re-evaluation goes only by
\* firing, at or after its time, never by being cancelled.
C19_NoLostWakeUp ==
    [][/\ \A i \in DOMAIN devices' :
              (IsTrigger(i)' /\ Canonical(i)' = STATE_ON)
              => /\ Timer(i, invalidate_after'[i]) \in BagToSet(timers')
                 /\ now' < invalidate_after'[i]
       /\ \A i \in DOMAIN devices :
              (IsTrigger(i) /\ NotifiedStep(i) /\ Truthy(ev'.data))
              => /\ CountOf(i, timers') = CountOf(i, timers) + 1
                 /\ CopiesIn(Timer(i, invalidate_after'[i]), timers')
                        = CopiesIn(Timer(i, invalidate_after'[i]), timers) + 1
       /\ \A tm \in BagToSet(timers) :
              CopiesIn(tm, timers') < CopiesIn(tm, timers)
              => /\ ev'.op = "timer"
                 /\ tm.at <= now
                 /\ timers' = timers (-) SetToBag({tm})]_vars

\* A trigger sensor reads On inside its window with the raw value truthy,
\* after an earlier re-evaluation has fired, and the one for the current
\* invalidate_after is pending.
C19_Witness ==
    \E i \in DOMAIN devices :
        /\ IsTrigger(i)
        /\ Canonical(i) = STATE_ON
        /\ ev.op = "timer"
        /\ ev.pushes = {i}
        /\ CountOf(i, timers) = 1
        /\ Timer(i, invalidate_after[i]) \in BagToSet(timers)

----------------------------------------------------------------------------
(* Multilevel normalization, under ReadSpec *)

Abs(i) == IF i < 0 THEN -i ELSE i

\* r is x rounded to nd decimal places: for a float, a float that is a whole
\* number of 10^-nd and no further from x than half of 10^-nd; an int has no
\* decimal places to lose.
RoundedTo(r, x, nd) ==
    IF x.type = "float"
    THEN /\ r.type = "float"
         /\ r.n % (Scale \div (10 ^ nd)) = 0
         /\ 2 * Abs(r.n - x.n) <= Scale \div (10 ^ nd)
    ELSE r = x

Numeric(x) == x.type \in {"float", "int"}
Temperature(unit) == unit \in {"C", "F"}

\* The state read is the one the claim describes for the reading rd.
StateAsClaimed(rd, st) ==
    /\ st.raised = None
    /\ IF Temperature(rd.units) THEN RoundedTo(st.returned[1], rd.data, 1)
       ELSE IF rd.data.type = "float" THEN RoundedTo(st.returned[1], rd.data, 2)
       ELSE st.returned[1] = rd.data

UnitAsClaimed(rd, unit) ==
    /\ rd.units = "C" => unit = TEMP_CELCIUS
    /\ rd.units = "F" => unit = TEMP_FAHRENHEIT
    /\ ~Temperature(rd.units) => unit = rd.units

\* 21.266 C -> 21.3, 68.04 F -> 68.0, 3.14159 lux -> 3.14, integer 5 count -> 5
ExamplesAsClaimed(rd, st) ==
    /\ rd = [data |-> PyFloat(2126600), units |-> "C"]
            => st = Returned(PyFloat(2130000))
    /\ rd = [data |-> PyFloat(6804000), units |-> "F"]
            => st = Returned(PyFloat(6800000))
    /\ rd = [data |-> PyFloat(314159), units |-> "lux"]
            => st = Returned(PyFloat(314000))
    /\ rd = [data |-> PyInt(5), units |-> "count"]
            => st = Returned(PyInt(5))

\* C15 (as stated): for every raw value and unit, ZWaveMultilevelSensor.state
\* is the value rounded to 1 decimal place when the unit is 'C' or 'F',
\* otherwise rounded to 2 decimal places when it is a float, otherwise the
\* value unchanged; unit_of_measurement is the canonical Celsius name for 'C',
\* the canonical Fahrenheit name for 'F' and the raw unit otherwise; with the
\* four examples of the claim.
C15_NormalizesEveryRawValue ==
    shown # None =>
        /\ StateAsClaimed(reading[1], shown[1].state)
        /\ UnitAsClaimed(reading[1], shown[1].unit_of_measurement)
        /\ ExamplesAsClaimed(reading[1], shown[1].state)

\* C15 (amended): the same for every numeric raw value (int or float) and
\* for every raw value whose unit is neither 'C' nor 'F'; reading the state
\* of a non-numeric raw value with unit 'C' or 'F' raises TypeError.
C15_NormalizesNumericRawValues ==
    shown # None =>
        /\ (Numeric(reading[1].data) \/ ~Temperature(reading[1].units))
                => StateAsClaimed(reading[1], shown[1].state)
        /\ (~Numeric(reading[1].data) /\ Temperature(reading[1].units))
                => shown[1].state = Raised("TypeError")
        /\ UnitAsClaimed(reading[1], shown[1].unit_of_measurement)
        /\ ExamplesAsClaimed(reading[1], shown[1].state)

\* The sensor of a value reading 21.266 C was read: 21.3 in canonical Celsius.
C15_Witness ==
    /\ reading = Some([data |-> PyFloat(2126600), units |-> "C"])
    /\ shown # None
    /\ shown[1].state = Returned(PyFloat(2130000))
    /\ shown[1].unit_of_measurement = TEMP_CELCIUS

----------------------------------------------------------------------------
(* Subscriptions *)

\* The devices whose value_changed is connected to the dispatcher for value v
\* (ZWaveSensor.__init__ connects one callback per entity constructed).
Connected(v) == {i \in DOMAIN devices : devices[i].value_id = v}

\* C13: after any sequence of discovery / setup_platform calls every device
\* handle has at most one subscription entry: no WeMo device received
\* register + on more than once, and no Z-Wave value has more than one
\* value_changed callback connected to the dispatcher.
C13_OneSubscriptionPerHandle ==
    /\ \A d \in DOMAIN registered : registered[d] <= 1
    /\ \A v \in ValueIds : Cardinality(Connected(v)) <= 1

----------------------------------------------------------------------------
(* Canonical state of a WeMo switch, under UpdateSpec *)

\* The device reports on; an Insight snapshot is held and its 'state' field
\* is neither '1' nor '0'.
ReportsOn(sw) == wemo_state[sw.wemo] # 0
SnapshotInStandby(sw) ==
    /\ sw.insight_params # None
    /\ sw.insight_params[1].state \notin {"1", "0"}

\* C20: WemoSwitch.state is Off whenever the device reports not-on, whatever
\* the snapshot; Standby exactly when the device reports on and an Insight
\* snapshot is present whose 'state' field is neither '1' nor '0'; On
\* otherwise, in particular for a device that is on before any successful
\* refresh of the switch (the states in the middle of an update() of the
\* switch left out).
C20_WemoCanonicalState ==
    \A k \in DOMAIN switches :
        /\ ~ReportsOn(switches[k]) => WemoSwitch_state(switches[k]) = STATE_OFF
        /\ WemoSwitch_state(switches[k]) = STATE_STANDBY
                <=> (ReportsOn(switches[k]) /\ SnapshotInStandby(switches[k]))
        /\ (ReportsOn(switches[k]) /\ ~SnapshotInStandby(switches[k]))
                => WemoSwitch_state(switches[k]) = STATE_ON
        /\ (ReportsOn(switches[k]) /\ ~refreshed[k] /\ ~UpdateUnderWay(k))
                => WemoSwitch_state(switches[k]) = STATE_ON

====
